---- MODULE Spec2Model ----
(***************************************************************************)
(* Flash-sale reservation -> relay -> fulfilment pipeline.                 *)
(*                                                                         *)
(* KV store : stock counter, user purchase lock, idempotency map, request  *)
(*            state hash, compensation marker, outbox stream (with the     *)
(*            relay consumer's pending-entries list).                      *)
(* DB       : order_requests and orders tables.                            *)
(* Log      : the durable topic, the consumer's read position and the      *)
(*            group's committed offset.                                    *)
(*                                                                         *)
(* One product is on sale; request ids are the integers 1..MaxReq, handed  *)
(* out in order (a fresh id per buy call).                                 *)
(***************************************************************************)
EXTENDS Integers, Sequences, FiniteSets, TLC

\* ------------------------------------------------------------------ bounds
MaxReq == 3
MaxUser == 3
MaxToken == 2
MaxStock == 2
MaxFault == 1
SalePrice == 1
MaxReplay == 3

Rids == 1..MaxReq
Users == 1..MaxUser
Tokens == 1..MaxToken
Quantities == {1}

\* -------------------------------------------------------------- constants
\* model.OrderRequestStatus (iota)
OrderRequestPending == 0
OrderRequestSuccess == 1
OrderRequestFailed == 2
\* XReadGroupArgs.Count
ReadCount == 16

\* pkg/redis request_state.go
RequestPending == "pending"
RequestSuccess == "success"
RequestFailed == "failed"

VARIABLES
    initStock,   \* the stock the preheat wrote (never changes)
    stock,       \* KV  stock:<product>
    userLock,    \* KV  purchase_lock:<product>:<user>   (0 = absent)
    idem,        \* KV  idem:<product>:<user>:<token>    (0 = absent)
    reqState,    \* KV  request_status:<rid> hash, field status ("" = absent)
    compLock,    \* KV  stock_compensated:<rid> markers
    restored,    \* history: units given back to the stock, per request id
    compCalls,   \* history: runs of the compensation script, per request id
    lastRelease, \* history: the last run of the lock release script
    stream,      \* outbox entries not yet delivered to the relay consumer
    pel,         \* entries delivered to the relay consumer and not acked
    batch,       \* the relay's current batch (rest of the for loop)
    klog,        \* the durable log (one partition)
    pos,         \* the consumer's next fetch position (1-based)
    committed,   \* number of log messages covered by the committed offset
    orderReq,    \* DB order_requests, by request id
    orders,      \* DB orders, in insertion order
    call,        \* the buy calls made so far and what they returned
    reads,       \* result lookups in flight (between KV miss and write-back)
    faults,      \* transient infrastructure faults injected so far
    run,         \* the worker context and the two worker tasks
    reqText      \* the text of each request id, as uuid.New().String() gave it

vars == << initStock, stock, userLock, idem, reqState, compLock, restored,
           compCalls, lastRelease, stream, pel, batch, klog, pos, committed, orderReq, orders, call,
           reads, faults, run, reqText >>

kvVars == << stock, userLock, idem, reqState, compLock, restored, compCalls,
            lastRelease >>
relayVars == << stream, pel, batch >>
logVars == << klog, pos, committed >>
dbVars == << orderReq, orders >>

\* ----------------------------------------------------------------- helpers
NoRow == [status |-> -1, order_no |-> <<>>, error_msg |-> "",
          user_id |-> 0, quantity |-> 0]

NoRelease == [user |-> 0, rid |-> 0, before |-> 0]

\* The worker context is live, relay.Run and consumer.Run are running, and
\* the consumer has no message in hand.
Running ==
    [cancelled |-> FALSE, relay |-> "running", consumer |-> "running",
     inflight |-> FALSE]

\* Request ids are written as 8-4-4-4-12 hexadecimal digits; here as 2-1
\* digits out of two. UUIDOf(r) is the text that stands for request r when
\* nothing else is chosen.
HexDigits == {"0", "1"}

UUIDForm == {<<a, b, "-", c>> : a \in HexDigits, b \in HexDigits, c \in HexDigits}

Digit(n) == IF n % 2 = 0 THEN "0" ELSE "1"

UUIDOf(r) == <<Digit((r - 1) \div 4), Digit((r - 1) \div 2), "-", Digit(r - 1)>>

NoCall == [user |-> 0, token |-> 0, qty |-> 0, res |-> "none", ref |-> 0]

Used == {r \in Rids : call[r].res # "none"}

\* Users and tokens are interchangeable: a buy call by a user (with a token)
\* not seen before takes the smallest unused one.
UsersSeen == {call[r].user : r \in Used}

TokensSeen(u) == {call[r].token : r \in {x \in Used : call[x].user = u}}

RECURSIVE SumQty(_)
SumQty(s) ==
    IF s = <<>> THEN 0 ELSE Head(s).quantity + SumQty(Tail(s))

Min(a, b) == IF a <= b THEN a ELSE b

\* The reservation event / durable log message of request r (one product,
\* id 1, sale price SalePrice per unit).
Event(r, u, q) ==
    [request_id |-> r, product_id |-> 1, user_id |-> u,
     quantity |-> q, amount |-> SalePrice * q]

\* ------------------------------------------------------------- KV scripts
\* mutant: the last unit is never sold
luaDecrStock_Strict(current, decr) ==
    IF current > decr THEN current - decr ELSE -1

\* mutant: the script answers with the stock it read and takes nothing off
luaDecrStock_NoDecr(current, decr) == current

\* mutant: a short stock is answered 0, not -1
luaDecrStock_Floor(current, decr) ==
    IF current >= decr THEN current - decr ELSE 0

\* luaDecrStock: the stock after the decrement, or -1 when it is short
luaDecrStock(current, decr) ==
    IF current >= decr THEN current - decr ELSE -1

\* mutant: INCRBY without the SETNX guard
luaCompensateStockOnce_NoLock(locks, stk, rid, quantity) ==
    [applied |-> 1, locks |-> locks \cup {rid}, stock |-> stk + quantity]

\* luaCompensateStockOnce: SETNX lock; on success INCRBY stock and return 1
luaCompensateStockOnce(locks, stk, rid, quantity) ==
    IF rid \notin locks
    THEN [applied |-> 1, locks |-> locks \cup {rid}, stock |-> stk + quantity]
    ELSE [applied |-> 0, locks |-> locks, stock |-> stk]

\* mutant: DEL without comparing the lock's value
luaReleaseUserLockIfMatch_NoCompare(lockVal, requestID) == 0

\* luaReleaseUserLockIfMatch: the lock's value after the script
luaReleaseUserLockIfMatch(lockVal, requestID) ==
    IF lockVal = requestID THEN 0 ELSE lockVal

\* mutant: no user lock check
ReserveResult_NoLock(u, t, q) ==
    IF idem[<<u, t>>] # 0 THEN "IDEMPOTENT"
    ELSE IF luaDecrStock(stock, q) < 0 THEN "OUT_OF_STOCK"
    ELSE "OK"

\* mutant: the user lock is looked up before the idempotency map
ReserveResult_LockFirst(u, t, q) ==
    IF userLock[u] # 0 THEN "DUPLICATE"
    ELSE IF idem[<<u, t>>] # 0 THEN "IDEMPOTENT"
    ELSE IF luaDecrStock(stock, q) < 0 THEN "OUT_OF_STOCK"
    ELSE "OK"

\* mutant: the stock is read before the idempotency map and the user lock
ReserveResult_StockFirst(u, t, q) ==
    IF luaDecrStock(stock, q) < 0 THEN "OUT_OF_STOCK"
    ELSE IF idem[<<u, t>>] # 0 THEN "IDEMPOTENT"
    ELSE IF userLock[u] # 0 THEN "DUPLICATE"
    ELSE "OK"

\* The answer of the reservation script for (user u, token t, quantity q):
\* idempotency lookup, then user lock, then stock.
ReserveResult(u, t, q) ==
    IF idem[<<u, t>>] # 0 THEN "IDEMPOTENT"
    ELSE IF userLock[u] # 0 THEN "DUPLICATE"
    ELSE IF luaDecrStock(stock, q) < 0 THEN "OUT_OF_STOCK"
    ELSE "OK"

\* ------------------------------------------------------------ DB queries
\* A field of a stream entry or of a log payload that is missing or does not
\* convert to the field's type.
BadField == -1

\* json.Unmarshal of a log payload into OrderMessage
Unmarshal(payload) ==
    IF \E f \in {"request_id", "product_id", "user_id", "quantity", "amount"} :
           payload[f] = BadField
    THEN [ok |-> FALSE, msg |-> <<>>]
    ELSE [ok |-> TRUE, msg |-> payload]

\* mutant: the amount is not checked
Validate_NoAmount(m) ==
    /\ m.request_id # 0
    /\ m.product_id # 0
    /\ m.user_id > 0
    /\ m.quantity > 0

\* OrderMessage.Validate
Validate(m) ==
    /\ m.request_id # 0
    /\ m.product_id # 0
    /\ m.user_id > 0
    /\ m.quantity > 0
    /\ m.amount > 0

\* mutant: only the part before the first dash is kept
buildOrderNo_FirstGroup(requestID) ==
    <<"S", "K">> \o SubSeq(requestID, 1, 2)

\* buildOrderNo: "SK" followed by the request id without its dashes
buildOrderNo(requestID) ==
    <<"S", "K">> \o SelectSeq(requestID, LAMBDA c : c # "-")

\* The unique indexes of the orders table (gorm tags of model.Order):
\* order_no and request_id. user_id and product_id are plain indexes.
OrderUniqueConflict(rows, o) ==
    \E i \in 1..Len(rows) :
        \/ rows[i].order_no = o.order_no
        \/ rows[i].request_id = o.request_id

HasOrderOfRequest(rows, rid) ==
    \E i \in 1..Len(rows) : rows[i].request_id = rid

OrderOfRequest(rows, rid) ==
    rows[CHOOSE i \in 1..Len(rows) : rows[i].request_id = rid]

HasOrderOfUser(rows, uid, pid) ==
    \E i \in 1..Len(rows) : rows[i].user_id = uid /\ rows[i].product_id = pid

\* mutant: no status counts as final
IsFinal_Never(status) == FALSE

\* req.Status == Success || req.Status == Failed
IsFinal(status) ==
    status = OrderRequestSuccess \/ status = OrderRequestFailed

\* mutant: the status update of the transaction is dropped
MarkSuccessIfPending_Noop(reqs, rid, orderNo) == reqs

\* UPDATE order_requests SET status = success, order_no, error_msg = ""
\*   WHERE request_id = ? AND status = pending
MarkSuccessIfPending(reqs, rid, orderNo) ==
    IF reqs[rid] # NoRow /\ reqs[rid].status = OrderRequestPending
    THEN [reqs EXCEPT ![rid].status = OrderRequestSuccess,
                      ![rid].order_no = orderNo,
                      ![rid].error_msg = ""]
    ELSE reqs

\* ---------------------------------------------------------------- consumer
\* The consumer works on st = [req, ord, stock, locks, restored, calls]; fault names
\* the call that fails in this run ("none": no call fails).

\* mutant: the order is inserted without rechecking the request row or the
\* unique indexes, and the request is left as it was
createOrderAndMarkSuccess_Blind(st, msg, fault) ==
    [st |-> [st EXCEPT !.ord = Append(@,
                [request_id |-> msg.request_id,
                 order_no |-> buildOrderNo(reqText[msg.request_id]),
                 user_id |-> msg.user_id, product_id |-> msg.product_id,
                 quantity |-> msg.quantity, amount |-> msg.amount,
                 status |-> 0])],
     err |-> "nil", hit |-> FALSE]

\* createOrderAndMarkSuccess: one DB transaction (an error rolls it back)
createOrderAndMarkSuccess(st, msg, fault) ==
    LET rid == msg.request_id
        req == st.req[rid]
        orderNo == buildOrderNo(reqText[rid])
        order == [request_id |-> rid, order_no |-> orderNo,
                  user_id |-> msg.user_id, product_id |-> msg.product_id,
                  quantity |-> msg.quantity, amount |-> msg.amount,
                  status |-> 0]
    IN  IF fault = "tx" THEN [st |-> st, err |-> "dberr", hit |-> TRUE]
        ELSE IF req = NoRow THEN [st |-> st, err |-> "notfound", hit |-> FALSE]
        ELSE IF IsFinal(req.status) THEN [st |-> st, err |-> "nil", hit |-> FALSE]
        ELSE IF OrderUniqueConflict(st.ord, order)
        THEN IF HasOrderOfRequest(st.ord, rid)
             THEN [st |-> [st EXCEPT !.req = MarkSuccessIfPending(@, rid,
                                       OrderOfRequest(st.ord, rid).order_no)],
                   err |-> "nil", hit |-> FALSE]
             ELSE IF HasOrderOfUser(st.ord, msg.user_id, msg.product_id)
             THEN [st |-> st, err |-> "duplicate", hit |-> FALSE]
             ELSE [st |-> st, err |-> "unique", hit |-> FALSE]
        ELSE [st |-> [st EXCEPT !.ord = Append(@, order),
                                !.req = MarkSuccessIfPending(@, rid, orderNo)],
              err |-> "nil", hit |-> FALSE]

\* mutant: the failed row replaces whatever row is there
createMissingFailedRequest_Overwrite(st, msg, reason) ==
    [st EXCEPT !.req[msg.request_id] =
        [status |-> OrderRequestFailed, order_no |-> <<>>,
         error_msg |-> reason, user_id |-> msg.user_id,
         quantity |-> msg.quantity]]

\* createMissingFailedRequest: INSERT ... ON CONFLICT (request_id) DO NOTHING
createMissingFailedRequest(st, msg, reason) ==
    IF st.req[msg.request_id] # NoRow THEN st
    ELSE [st EXCEPT !.req[msg.request_id] =
            [status |-> OrderRequestFailed, order_no |-> <<>>,
             error_msg |-> reason, user_id |-> msg.user_id,
             quantity |-> msg.quantity]]

\* markRequestFailed: UPDATE ... WHERE request_id = ? AND status = pending
markRequestFailed(st, requestID, reason) ==
    IF st.req[requestID] # NoRow /\ st.req[requestID].status = OrderRequestPending
    THEN [st EXCEPT !.req[requestID].status = OrderRequestFailed,
                    !.req[requestID].error_msg = reason]
    ELSE st

\* syncRequestStatusFromOrder: UPDATE ... WHERE request_id = ? (no status guard)
syncRequestStatusFromOrder(st, requestID) ==
    IF ~HasOrderOfRequest(st.ord, requestID) \/ st.req[requestID] = NoRow THEN st
    ELSE [st EXCEPT !.req[requestID].status = OrderRequestSuccess,
                    !.req[requestID].order_no =
                        OrderOfRequest(st.ord, requestID).order_no,
                    !.req[requestID].error_msg = ""]

\* mutant: the consumer gives the stock back with a plain INCRBY
compensateStockOnce_Plain(st, msg) ==
    [st EXCEPT !.stock = @ + msg.quantity,
               !.restored[msg.request_id] = @ + msg.quantity,
               !.calls[msg.request_id] = @ + 1]

\* Consumer.compensateStockOnce -> rediskey.CompensateStockOnce
compensateStockOnce(st, msg) ==
    LET c == luaCompensateStockOnce(st.locks, st.stock, msg.request_id,
                                    msg.quantity)
    IN  [st EXCEPT !.locks = c.locks, !.stock = c.stock,
                   !.restored[msg.request_id] = @ + (c.stock - st.stock),
                   !.calls[msg.request_id] = @ + 1]

\* mutant: no status is looked at -- a missing row is created failed, any
\* other row is marked success
processMessage_NoGuard(st, m, fault) ==
    LET rid == m.request_id
    IN  [st |-> IF st.req[rid] = NoRow
                THEN createMissingFailedRequest(st, m, "request_state_missing")
                ELSE [st EXCEPT !.req[rid].status = OrderRequestSuccess],
         err |-> FALSE, hit |-> FALSE]

\* processMessage: [st, err, hit]; err = TRUE is a returned error (no commit),
\* hit says that the call named by fault was reached and failed.
processMessage(st, m, fault) ==
    LET rid == m.request_id
        done(s) == [st |-> s, err |-> FALSE, hit |-> FALSE]
        failed(s) == [st |-> s, err |-> TRUE, hit |-> TRUE]
    IN  IF ~Unmarshal(m).ok THEN done(st)
        ELSE IF ~Validate(m) THEN done(st)
        ELSE IF fault = "first" THEN failed(st)
        ELSE IF st.req[rid] = NoRow
        THEN IF fault = "create" THEN failed(st)
             ELSE LET s1 == createMissingFailedRequest(st, m,
                                "request_state_missing")
                  IN  IF fault = "kv" THEN failed(s1)
                      ELSE done(compensateStockOnce(s1, m))
        ELSE IF IsFinal(st.req[rid].status) THEN done(st)
        ELSE LET t == createOrderAndMarkSuccess(st, m, fault)
             IN  IF t.err = "nil" THEN done(t.st)
                 ELSE IF t.err = "duplicate"
                 THEN IF fault = "mark" THEN failed(t.st)
                      ELSE LET s2 == markRequestFailed(t.st, rid,
                                         "duplicate_purchase")
                           IN  IF fault = "kv" THEN failed(s2)
                               ELSE done(compensateStockOnce(s2, m))
                 ELSE IF t.err = "unique"
                 THEN IF fault = "sync" THEN failed(t.st)
                      ELSE done(syncRequestStatusFromOrder(t.st, rid))
                 ELSE [st |-> t.st, err |-> TRUE, hit |-> t.hit]

ConsumerFaults == {"none", "first", "create", "tx", "mark", "sync", "kv"}

\* One statement (or one transaction) of processMessage run by a consumer
\* task that stands at pc, no call failing: [st, pc]. "first" is the read of
\* the order request row and the tests on it, "insert" the insert of the
\* failed row, "tx" the transaction, "mark" and "sync" the updates after a
\* conflict, "comp" the compensation script.
WorkerStep(st, m, pc) ==
    LET rid == m.request_id
    IN  IF pc = "first"
        THEN [st |-> st,
              pc |-> IF ~Unmarshal(m).ok \/ ~Validate(m) THEN "done"
                     ELSE IF st.req[rid] = NoRow THEN "insert"
                     ELSE IF IsFinal(st.req[rid].status) THEN "done"
                     ELSE "tx"]
        ELSE IF pc = "insert"
        THEN [st |-> createMissingFailedRequest(st, m, "request_state_missing"),
              pc |-> "comp"]
        ELSE IF pc = "tx"
        THEN LET t == createOrderAndMarkSuccess(st, m, "none")
             IN  [st |-> t.st,
                  pc |-> IF t.err = "duplicate" THEN "mark"
                         ELSE IF t.err = "unique" THEN "sync"
                         ELSE "done"]
        ELSE IF pc = "mark"
        THEN [st |-> markRequestFailed(st, rid, "duplicate_purchase"),
              pc |-> "comp"]
        ELSE IF pc = "sync"
        THEN [st |-> syncRequestStatusFromOrder(st, rid), pc |-> "done"]
        ELSE [st |-> compensateStockOnce(st, m), pc |-> "done"]

\* The states two consumer tasks can leave that process message m at the
\* same time, standing at pcA and pcB: every interleaving of their steps.
RECURSIVE RunPair(_, _, _, _)
RunPair(st, m, pcA, pcB) ==
    IF pcA = "done" /\ pcB = "done" THEN {st}
    ELSE (IF pcA = "done" THEN {}
          ELSE LET n == WorkerStep(st, m, pcA)
               IN  RunPair(n.st, m, n.pc, pcB))
         \cup
         (IF pcB = "done" THEN {}
          ELSE LET n == WorkerStep(st, m, pcB)
               IN  RunPair(n.st, m, pcA, n.pc))

\* Two consumer tasks fetch the message at pos and process it concurrently;
\* both return without error and the offset is committed.
ConsumerPairStep ==
    /\ pos <= Len(klog)
    /\ \E s \in RunPair([req |-> orderReq, ord |-> orders, stock |-> stock,
                         locks |-> compLock, restored |-> restored,
                         calls |-> compCalls], klog[pos], "first", "first") :
          /\ orderReq' = s.req
          /\ orders' = s.ord
          /\ stock' = s.stock
          /\ compLock' = s.locks
          /\ restored' = s.restored
          /\ compCalls' = s.calls
    /\ pos' = pos + 1
    /\ committed' = pos
    /\ UNCHANGED << initStock, run, reqText, userLock, idem, reqState, lastRelease,
                    relayVars, klog, call, reads, faults >>

ConsumerStep_CommitFirst(fault, commitOK) ==
    /\ pos <= Len(klog)
    /\ LET st == [req |-> orderReq, ord |-> orders, stock |-> stock,
                  locks |-> compLock, restored |-> restored,
                  calls |-> compCalls]
           r == processMessage(st, klog[pos], fault)
           nf == (IF fault = "none" THEN 0 ELSE 1)
                 + (IF commitOK THEN 0 ELSE 1)
       IN  /\ (fault = "none") = ~r.hit
           /\ r.err => commitOK
           /\ faults + nf <= MaxFault
           /\ faults' = faults + nf
           /\ orderReq' = r.st.req
           /\ orders' = r.st.ord
           /\ stock' = r.st.stock
           /\ compLock' = r.st.locks
           /\ restored' = r.st.restored
           /\ compCalls' = r.st.calls
           /\ committed' = IF commitOK THEN pos ELSE committed
    /\ pos' = pos + 1
    /\ UNCHANGED << initStock, run, reqText, userLock, idem, reqState, lastRelease,
                    relayVars, klog, call, reads >>

\* Consumer.Run, one iteration: FetchMessage, processMessage, and
\* CommitMessages only when processing returned no error. The reader's
\* position moves on with every fetch; the group offset only with a commit.
ConsumerStep(fault, commitOK) ==
    /\ pos <= Len(klog)
    /\ LET st == [req |-> orderReq, ord |-> orders, stock |-> stock,
                  locks |-> compLock, restored |-> restored,
                  calls |-> compCalls]
           r == processMessage(st, klog[pos], fault)
           nf == (IF fault = "none" THEN 0 ELSE 1)
                 + (IF commitOK THEN 0 ELSE 1)
       IN  /\ (fault = "none") = ~r.hit
           /\ r.err => commitOK
           /\ faults + nf <= MaxFault
           /\ faults' = faults + nf
           /\ orderReq' = r.st.req
           /\ orders' = r.st.ord
           /\ stock' = r.st.stock
           /\ compLock' = r.st.locks
           /\ restored' = r.st.restored
           /\ compCalls' = r.st.calls
           /\ committed' = IF ~r.err /\ commitOK THEN pos ELSE committed
    /\ pos' = pos + 1
    /\ UNCHANGED << initStock, run, reqText, userLock, idem, reqState, lastRelease,
                    relayVars, klog, call, reads >>

\* The consumer process restarts (or the group rebalances): reading resumes
\* after the committed offset.
ConsumerRestart ==
    /\ pos # committed + 1
    /\ pos' = committed + 1
    /\ UNCHANGED << initStock, run, reqText, kvVars, relayVars, klog, committed, dbVars,
                    call, reads, faults >>

\* mutant: the entry's fields are converted but the message is not validated
parseOrderEvent_NoValidate(values) ==
    IF \E f \in {"product_id", "user_id", "quantity", "amount"} :
           values[f] = BadField
    THEN [ok |-> FALSE, msg |-> <<>>]
    ELSE [ok |-> TRUE,
          msg |-> [request_id |-> values.request_id,
                   product_id |-> values.product_id,
                   user_id |-> values.user_id,
                   quantity |-> values.quantity,
                   amount |-> values.amount]]

\* parseOrderEvent: every field present and a number, then Validate
parseOrderEvent(values) ==
    IF \E f \in {"product_id", "user_id", "quantity", "amount"} :
           values[f] = BadField
    THEN [ok |-> FALSE, msg |-> <<>>]
    ELSE LET msg == [request_id |-> values.request_id,
                     product_id |-> values.product_id,
                     user_id |-> values.user_id,
                     quantity |-> values.quantity,
                     amount |-> values.amount]
         IN  IF Validate(msg) THEN [ok |-> TRUE, msg |-> msg]
             ELSE [ok |-> FALSE, msg |-> <<>>]

RelayRead_NewOnly ==
    /\ batch = <<>>
    /\ stream # <<>>
    /\ LET n == Min(ReadCount, Len(stream))
       IN  /\ batch' = SubSeq(stream, 1, n)
           /\ pel' = pel \o SubSeq(stream, 1, n)
           /\ stream' = SubSeq(stream, n + 1, Len(stream))
    /\ UNCHANGED << initStock, run, reqText, kvVars, logVars, dbVars, call, reads, faults >>

\* ------------------------------------------------------------------- relay
\* Relay.Run, the two reads of one iteration: the consumer's own pending
\* entries first (id "0"); only when there are none, new entries (id ">"),
\* which thereby enter the pending list. At most ReadCount entries a read.
RelayRead ==
    /\ batch = <<>>
    /\ IF pel # <<>>
       THEN /\ batch' = SubSeq(pel, 1, Min(ReadCount, Len(pel)))
            /\ UNCHANGED << stream, pel >>
       ELSE /\ stream # <<>>
            /\ LET n == Min(ReadCount, Len(stream))
               IN  /\ batch' = SubSeq(stream, 1, n)
                   /\ pel' = SubSeq(stream, 1, n)
                   /\ stream' = SubSeq(stream, n + 1, Len(stream))
    /\ UNCHANGED << initStock, run, reqText, kvVars, logVars, dbVars, call, reads, faults >>

Without(s, x) == SelectSeq(s, LAMBDA y : y # x)

RelayProcessOne_AckAlways(outcome) ==
    /\ batch # <<>>
    /\ LET xm == Head(batch)
       IN  /\ klog' = IF outcome = "publish" THEN klog ELSE Append(klog, xm)
           /\ pel' = IF outcome = "ack" THEN pel ELSE Without(pel, xm)
           /\ batch' = IF outcome = "ack" THEN <<>> ELSE Tail(batch)
    /\ IF outcome = "ok" THEN faults' = faults
       ELSE faults < MaxFault /\ faults' = faults + 1
    /\ UNCHANGED << initStock, run, reqText, kvVars, stream, pos, committed, dbVars, call,
                    reads >>

\* Relay.processOne on the head of the batch. outcome: "ok" (published, then
\* XACK + XDEL), "publish" (Publish fails), "ack" (published, ack fails).
\* An error ends the batch; the entry stays in the pending list. An entry
\* that does not parse is not published: it goes straight to XACK + XDEL.
RelayProcessOne(outcome) ==
    /\ batch # <<>>
    /\ LET xm == Head(batch)
           p == parseOrderEvent(xm)
       IN  /\ p.ok \/ outcome # "publish"
           /\ klog' = IF ~p.ok \/ outcome = "publish" THEN klog
                      ELSE Append(klog, p.msg)
           /\ pel' = IF outcome = "ok" THEN Without(pel, xm) ELSE pel
           /\ batch' = IF outcome = "ok" THEN Tail(batch) ELSE <<>>
    /\ IF outcome = "ok" THEN faults' = faults
       ELSE faults < MaxFault /\ faults' = faults + 1
    /\ UNCHANGED << initStock, run, reqText, kvVars, stream, pos, committed, dbVars, call,
                    reads >>

\* The relay process is restarted under the same group and consumer name
\* (NewRelay, then Run from its top): the batch in hand is lost, the
\* pending list is kept by the stream's consumer group.
RelayRestart ==
    /\ batch # <<>>
    /\ faults < MaxFault
    /\ faults' = faults + 1
    /\ batch' = <<>>
    /\ UNCHANGED << initStock, run, reqText, kvVars, stream, pel, logVars, dbVars, call,
                    reads >>

\* mutant: a rejected call still takes the user's lock
Buy_RejectLocks(u, t, q, persist) ==
    LET r == Cardinality(Used) + 1
        res == ReserveResult(u, t, q)
    IN  /\ r \in Rids
        /\ u <= Cardinality(UsersSeen) + 1
        /\ t <= Cardinality(TokensSeen(u)) + 1
        /\ persist = "ok"
        /\ call' = [call EXCEPT ![r] =
                [user |-> u, token |-> t, qty |-> q, res |-> res,
                 ref |-> IF res = "IDEMPOTENT" THEN idem[<<u, t>>]
                         ELSE IF res = "OK" THEN r ELSE 0]]
        /\ userLock' = [userLock EXCEPT ![u] = r]
        /\ IF res = "OK"
           THEN /\ idem' = [idem EXCEPT ![<<u, t>>] = r]
                /\ reqState' = [reqState EXCEPT ![r] = RequestPending]
                /\ stream' = Append(stream, Event(r, u, q))
                /\ orderReq' = [orderReq EXCEPT ![r] =
                                  [status |-> OrderRequestPending,
                                   order_no |-> <<>>, error_msg |-> "",
                                   user_id |-> u, quantity |-> q]]
                /\ stock' = luaDecrStock(stock, q)
           ELSE UNCHANGED << stock, idem, reqState, stream, orderReq >>
        /\ UNCHANGED << initStock, run, reqText, compLock, restored, compCalls, lastRelease,
                        pel, batch, logVars, orders, reads, faults >>

\* --------------------------------------------------------------- shutdown
\* main: the exit signal cancels the context of both workers.
Cancel ==
    /\ ~run.cancelled
    /\ run' = [run EXCEPT !.cancelled = TRUE]
    /\ UNCHANGED << initStock, reqText, kvVars, relayVars, logVars, dbVars,
                    call, reads, faults >>

\* Relay.Run while the context is live: the reads at the top of an
\* iteration, and processOne on the entries of the batch.
RelayIterate ==
    /\ run.relay = "running"
    /\ ~run.cancelled
    /\ (RelayRead \/ RelayProcessOne("ok"))

\* Relay.Run, the context cancelled with a batch in hand: the call in
\* flight fails (Publish, or XACK + XDEL after a publish that went through),
\* processOne returns the error and the loop over the batch is left.
RelayCancelledBatch(published) ==
    /\ run.relay = "running"
    /\ run.cancelled
    /\ batch # <<>>
    /\ LET p == parseOrderEvent(Head(batch))
       IN  klog' = IF published /\ p.ok THEN Append(klog, p.msg) ELSE klog
    /\ batch' = <<>>
    /\ UNCHANGED << initStock, run, reqText, kvVars, stream, pel, pos, committed,
                    dbVars, call, reads, faults >>

\* Relay.Run returns: ctx.Err() at the top of an iteration, or the read
\* that fails on the cancelled context.
RelayReturn ==
    /\ run.relay = "running"
    /\ run.cancelled
    /\ batch = <<>>
    /\ run' = [run EXCEPT !.relay = "returned"]
    /\ UNCHANGED << initStock, reqText, kvVars, relayVars, logVars, dbVars,
                    call, reads, faults >>

\* Consumer.Run: FetchMessage returns the message at pos.
ConsumerFetch ==
    /\ run.consumer = "running"
    /\ ~run.cancelled
    /\ ~run.inflight
    /\ pos <= Len(klog)
    /\ run' = [run EXCEPT !.inflight = TRUE]
    /\ UNCHANGED << initStock, reqText, kvVars, relayVars, logVars, dbVars,
                    call, reads, faults >>

\* mutant: the offset is committed although the context is cancelled
ConsumerFinish_CommitAnyway ==
    /\ run.inflight
    /\ LET st == [req |-> orderReq, ord |-> orders, stock |-> stock,
                  locks |-> compLock, restored |-> restored,
                  calls |-> compCalls]
           r == processMessage(st, klog[pos], "none")
       IN  /\ orderReq' = r.st.req
           /\ orders' = r.st.ord
           /\ stock' = r.st.stock
           /\ compLock' = r.st.locks
           /\ restored' = r.st.restored
           /\ compCalls' = r.st.calls
           /\ committed' = pos
    /\ pos' = pos + 1
    /\ run' = [run EXCEPT !.inflight = FALSE]
    /\ UNCHANGED << initStock, reqText, userLock, idem, reqState,
                    lastRelease, relayVars, klog, call, reads, faults >>

\* Consumer.Run on the message in hand: processMessage, whose database
\* calls take no context and whose compensation call fails on a cancelled
\* one, then CommitMessages(ctx, m), which fails on a cancelled context.
ConsumerFinish ==
    /\ run.inflight
    /\ LET st == [req |-> orderReq, ord |-> orders, stock |-> stock,
                  locks |-> compLock, restored |-> restored,
                  calls |-> compCalls]
           k == processMessage(st, klog[pos], "kv")
           r == IF run.cancelled /\ k.hit THEN k
                ELSE processMessage(st, klog[pos], "none")
       IN  /\ orderReq' = r.st.req
           /\ orders' = r.st.ord
           /\ stock' = r.st.stock
           /\ compLock' = r.st.locks
           /\ restored' = r.st.restored
           /\ compCalls' = r.st.calls
           /\ committed' = IF ~r.err /\ ~run.cancelled THEN pos ELSE committed
    /\ pos' = pos + 1
    /\ run' = [run EXCEPT !.inflight = FALSE]
    /\ UNCHANGED << initStock, reqText, userLock, idem, reqState,
                    lastRelease, relayVars, klog, call, reads, faults >>

\* Consumer.Run returns: FetchMessage fails on the cancelled context.
ConsumerReturn ==
    /\ run.consumer = "running"
    /\ run.cancelled
    /\ ~run.inflight
    /\ run' = [run EXCEPT !.consumer = "returned"]
    /\ UNCHANGED << initStock, reqText, kvVars, relayVars, logVars, dbVars,
                    call, reads, faults >>

\* ------------------------------------------------------------- buy handler
\* POST /api/flash_sale/buy by user u with idempotency token t, quantity q.
\* The handler takes a fresh request id and runs the reservation script; on
\* OK it writes the pending order_requests row. persist: "ok" (row written),
\* "fail" (the DB write fails and the handler compensates the stock),
\* "abort" (no row is written: the handler is cancelled right after the
\* script, or it leaves the row to the consumer as secKill in router.go does).
Buy(u, t, q, persist) ==
    LET r == Cardinality(Used) + 1
        res == ReserveResult(u, t, q)
        left == luaDecrStock(stock, q)
        c == luaCompensateStockOnce(compLock, left, r, q)
    IN  /\ r \in Rids
        /\ u <= Cardinality(UsersSeen) + 1
        /\ t <= Cardinality(TokensSeen(u)) + 1
        /\ call' = [call EXCEPT ![r] =
                [user |-> u, token |-> t, qty |-> q, res |-> res,
                 ref |-> IF res = "IDEMPOTENT" THEN idem[<<u, t>>]
                         ELSE IF res = "OK" THEN r ELSE 0]]
        /\ IF res = "OK"
           THEN /\ userLock' = [userLock EXCEPT ![u] = r]
                /\ idem' = [idem EXCEPT ![<<u, t>>] = r]
                /\ reqState' = [reqState EXCEPT ![r] = RequestPending]
                /\ stream' = Append(stream, Event(r, u, q))
                /\ orderReq' = IF persist = "ok"
                               THEN [orderReq EXCEPT ![r] =
                                      [status |-> OrderRequestPending,
                                       order_no |-> <<>>, error_msg |-> "",
                                       user_id |-> u, quantity |-> q]]
                               ELSE orderReq
                /\ stock' = IF persist = "fail" THEN c.stock ELSE left
                /\ compLock' = IF persist = "fail" THEN c.locks ELSE compLock
                /\ restored' = IF persist = "fail"
                               THEN [restored EXCEPT ![r] = @ + (c.stock - left)]
                               ELSE restored
                /\ compCalls' = IF persist = "fail"
                                THEN [compCalls EXCEPT ![r] = @ + 1]
                                ELSE compCalls
                /\ UNCHANGED lastRelease
           ELSE /\ persist = "ok"
                /\ UNCHANGED << kvVars, stream, orderReq >>
        /\ UNCHANGED << initStock, run, reqText, pel, batch, logVars, orders, reads, faults >>

\* A message for a request id that was never reserved is published to the
\* log by hand: no script ran for it, no stock was taken, no row exists.
ManualPublish(u, q) ==
    LET r == Cardinality(Used) + 1
    IN  /\ r \in Rids
        /\ u <= Cardinality(UsersSeen) + 1
        /\ klog' = Append(klog, Event(r, u, q))
        /\ call' = [call EXCEPT ![r] =
                [user |-> u, token |-> 0, qty |-> q, res |-> "UNRESERVED",
                 ref |-> 0]]
        /\ UNCHANGED << initStock, run, reqText, kvVars, relayVars, pos, committed, dbVars,
                        reads, faults >>

\* An entry is added to the outbox stream by hand (XADD), one of its fields
\* missing or not a number (BadField) or zero. No script ran for its id.
OutboxAddRaw(u, f, v) ==
    LET r == Cardinality(Used) + 1
    IN  /\ r \in Rids
        /\ u <= Cardinality(UsersSeen) + 1
        /\ stream' = Append(stream, [Event(r, u, 1) EXCEPT ![f] = v])
        /\ call' = [call EXCEPT ![r] =
                [user |-> u, token |-> 0, qty |-> 1, res |-> "RAW",
                 ref |-> 0]]
        /\ UNCHANGED << initStock, run, reqText, kvVars, pel, batch, logVars, dbVars,
                        reads, faults >>

\* A payload is published to the log by hand, one of its fields undecodable
\* (BadField) or zero. No script ran for its id.
LogPublishRaw(u, f, v) ==
    LET r == Cardinality(Used) + 1
    IN  /\ r \in Rids
        /\ u <= Cardinality(UsersSeen) + 1
        /\ klog' = Append(klog, [Event(r, u, 1) EXCEPT ![f] = v])
        /\ call' = [call EXCEPT ![r] =
                [user |-> u, token |-> 0, qty |-> 1, res |-> "RAW",
                 ref |-> 0]]
        /\ UNCHANGED << initStock, run, reqText, kvVars, relayVars, pos, committed, dbVars,
                        reads, faults >>

\* ------------------------------------------------------ user lock, KV state
\* The user lock's TTL runs out.
ExpireUserLock(u) ==
    /\ userLock[u] # 0
    /\ userLock' = [userLock EXCEPT ![u] = 0]
    /\ UNCHANGED << initStock, run, reqText, stock, idem, reqState, compLock, restored,
                    compCalls, lastRelease, relayVars, logVars, dbVars, call,
                    reads, faults >>

\* ReleaseUserLockIfMatch(product, u, rid), run on behalf of request rid,
\* which user u reserved earlier.
ReleaseUserLock(u, rid) ==
    /\ call[rid].res = "OK"
    /\ call[rid].user = u
    /\ userLock' = [userLock EXCEPT ![u] = luaReleaseUserLockIfMatch(@, rid)]
    /\ lastRelease' = [user |-> u, rid |-> rid, before |-> userLock[u]]
    /\ UNCHANGED << initStock, run, reqText, stock, idem, reqState, compLock, restored,
                    compCalls, relayVars, logVars, dbVars, call, reads,
                    faults >>

\* GetRequestState: HGETALL; an empty hash is "not found"
GetRequestState(states, requestID) ==
    [found |-> states[requestID] # "", status |-> states[requestID]]

\* PutRequestState: HSET status (and the other fields) + EXPIRE, unconditional
PutRequestState(states, requestID, status) ==
    [states EXCEPT ![requestID] = status]

\* The request state hash's TTL runs out.
ExpireRequestState(r) ==
    /\ reqState[r] # ""
    /\ reqState' = [reqState EXCEPT ![r] = ""]
    /\ UNCHANGED << initStock, run, reqText, stock, userLock, idem, compLock, restored,
                    compCalls, lastRelease, relayVars, logVars, dbVars, call,
                    reads, faults >>

\* The DB status as the state enum of the result endpoint
MapStatus(status) ==
    IF status = OrderRequestSuccess THEN RequestSuccess
    ELSE IF status = OrderRequestFailed THEN RequestFailed
    ELSE RequestPending

Readers == {"A", "B"}

Idle == [pc |-> "idle", rid |-> 0, status |-> ""]

\* GET /result/:request_id, first half: the KV hash is missing and the DB row
\* is read. (A KV hit, and a DB miss, answer without changing anything.)
ResultRead(i, r) ==
    /\ reads[i].pc = "idle"
    /\ ~GetRequestState(reqState, r).found
    /\ orderReq[r] # NoRow
    /\ reads' = [reads EXCEPT ![i] = [pc |-> "writeback", rid |-> r,
                                      status |-> MapStatus(orderReq[r].status)]]
    /\ UNCHANGED << initStock, run, reqText, kvVars, relayVars, logVars, dbVars, call,
                    faults >>

\* GET /result/:request_id, second half: the status read from the DB is
\* written back to the KV hash.
ResultWriteBack(i) ==
    /\ reads[i].pc = "writeback"
    /\ reqState' = PutRequestState(reqState, reads[i].rid, reads[i].status)
    /\ reads' = [reads EXCEPT ![i] = Idle]
    /\ UNCHANGED << initStock, run, reqText, stock, userLock, idem, compLock, restored,
                    compCalls, lastRelease, relayVars, logVars, dbVars, call,
                    faults >>

\* mutant: a miss in KV and DB is answered as a request still in the queue
ResultAnswer_SynthPending(states, reqs, r) ==
    IF GetRequestState(states, r).found THEN states[r]
    ELSE IF reqs[r] = NoRow THEN RequestPending
    ELSE MapStatus(reqs[r].status)

\* What GET /result/:request_id answers for request id r: the KV state if
\* there is one, else the status of the DB row, else "not_found" (404).
ResultAnswer(states, reqs, r) ==
    IF GetRequestState(states, r).found THEN states[r]
    ELSE IF reqs[r] = NoRow THEN "not_found"
    ELSE MapStatus(reqs[r].status)

\* GET /result/:request_id answered from the KV hash, or not found in both
\* stores: nothing is written.
ResultLookup(i, r) ==
    /\ reads[i].pc = "idle"
    /\ GetRequestState(reqState, r).found \/ orderReq[r] = NoRow
    /\ reads' = [reads EXCEPT ![i] =
                    [pc |-> "answered", rid |-> r,
                     status |-> ResultAnswer(reqState, orderReq, r)]]
    /\ UNCHANGED << initStock, run, reqText, kvVars, relayVars, logVars, dbVars, call,
                    faults >>

\* The answer has been sent.
ResultReturn(i) ==
    /\ reads[i].pc = "answered"
    /\ reads' = [reads EXCEPT ![i] = Idle]
    /\ UNCHANGED << initStock, run, reqText, kvVars, relayVars, logVars, dbVars, call,
                    faults >>

\* ------------------------------------------------------------ specification

\* Nothing was requested yet and both workers have just been started.
InitIdle ==
    /\ userLock = [u \in Users |-> 0]
    /\ idem = [k \in Users \X Tokens |-> 0]
    /\ reqState = [r \in Rids |-> ""]
    /\ compLock = {}
    /\ restored = [r \in Rids |-> 0]
    /\ compCalls = [r \in Rids |-> 0]
    /\ lastRelease = NoRelease
    /\ stream = <<>>
    /\ pel = <<>>
    /\ batch = <<>>
    /\ klog = <<>>
    /\ pos = 1
    /\ committed = 0
    /\ orderReq = [r \in Rids |-> NoRow]
    /\ orders = <<>>
    /\ call = [r \in Rids |-> NoCall]
    /\ reads = [i \in Readers |-> Idle]
    /\ faults = 0
    /\ run = Running

Init ==
    /\ initStock \in 1..MaxStock
    /\ stock = initStock
    /\ reqText = [r \in Rids |-> UUIDOf(r)]
    /\ InitIdle

Next ==
    \/ \E u \in Users, t \in Tokens, q \in Quantities,
          persist \in {"ok", "fail", "abort"} : Buy(u, t, q, persist)
    \/ RelayRead
    \/ \E outcome \in {"ok", "publish", "ack"} : RelayProcessOne(outcome)
    \/ \E fault \in ConsumerFaults, commitOK \in BOOLEAN :
          ConsumerStep(fault, commitOK)
    \/ ConsumerRestart

Spec == Init /\ [][Next]_vars

\* The pipeline with user locks that expire.
NextTTL ==
    \/ Next
    \/ \E u \in Users : ExpireUserLock(u)

SpecTTL == Init /\ [][NextTTL]_vars

\* Reservations, and requests that release their user lock.
NextRelease ==
    \/ \E u \in Users, t \in Tokens, q \in Quantities,
          persist \in {"ok", "fail", "abort"} : Buy(u, t, q, persist)
    \/ \E u \in Users, rid \in Rids : ReleaseUserLock(u, rid)

SpecRelease == Init /\ [][NextRelease]_vars

\* The pipeline with the result endpoint and request states that expire.
NextKV ==
    \/ Next
    \/ \E r \in Rids : ExpireRequestState(r)
    \/ \E i \in Readers, r \in Rids : ResultRead(i, r)
    \/ \E i \in Readers : ResultWriteBack(i)

SpecKV == Init /\ [][NextKV]_vars

\* Reservations and the relay alone. The relay's loop never stops, and the
\* log is unreachable (and the relay restarted) only MaxFault times.
NextRelay ==
    \/ \E u \in Users, t \in Tokens, q \in Quantities : Buy(u, t, q, "ok")
    \/ RelayRead
    \/ \E outcome \in {"ok", "publish", "ack"} : RelayProcessOne(outcome)
    \/ RelayRestart

SpecRelay ==
    /\ Init
    /\ [][NextRelay]_vars
    /\ WF_vars(RelayRead)
    /\ WF_vars(\E outcome \in {"ok", "publish", "ack"} : RelayProcessOne(outcome))

\* The pipeline without any fault: no call fails, nothing restarts, no TTL
\* runs out. The handler's own write of the order_requests row is optional.
NextHappy ==
    \/ \E u \in Users, t \in Tokens, q \in Quantities,
          persist \in {"ok", "abort"} : Buy(u, t, q, persist)
    \/ RelayRead
    \/ RelayProcessOne("ok")
    \/ ConsumerStep("none", TRUE)

SpecHappy == Init /\ [][NextHappy]_vars

\* The pipeline without faults, and messages published by hand.
NextManual ==
    \/ NextHappy
    \/ \E u \in Users, q \in Quantities : ManualPublish(u, q)

SpecManual == Init /\ [][NextManual]_vars

\* Reservations (the handler's row write is optional), request states that
\* expire, and the result endpoint asked for any request id, issued or not.
NextResult ==
    \/ \E u \in Users, t \in Tokens, q \in Quantities,
          persist \in {"ok", "abort"} : Buy(u, t, q, persist)
    \/ \E r \in Rids : ExpireRequestState(r)
    \/ \E i \in Readers, r \in Rids : ResultLookup(i, r)
    \/ \E i \in Readers : ResultReturn(i)

SpecResult == Init /\ [][NextResult]_vars

\* The consumer with its faults and restarts, fed by a relay whose only
\* fault is a failed ack (a second copy of the message in the log).
NextConsume ==
    \/ \E u \in Users, t \in Tokens, q \in Quantities,
          persist \in {"ok", "abort"} : Buy(u, t, q, persist)
    \/ RelayRead
    \/ \E outcome \in {"ok", "ack"} : RelayProcessOne(outcome)
    \/ \E fault \in ConsumerFaults, commitOK \in BOOLEAN :
          ConsumerStep(fault, commitOK)
    \/ ConsumerRestart

SpecConsume == Init /\ [][NextConsume]_vars

\* Handlers whose write of the order_requests row succeeds or fails, the
\* relay (an ack may fail) and the consumer without faults.
NextCaller ==
    \/ \E u \in Users, t \in Tokens, q \in Quantities,
          persist \in {"ok", "fail"} : Buy(u, t, q, persist)
    \/ RelayRead
    \/ \E outcome \in {"ok", "ack"} : RelayProcessOne(outcome)
    \/ ConsumerStep("none", TRUE)

SpecCaller == Init /\ [][NextCaller]_vars

\* Reservations, hand-written outbox entries and the relay.
NextPoison ==
    \/ \E u \in Users, q \in Quantities : Buy(u, 1, q, "ok")
    \/ \E f \in {"product_id", "user_id", "quantity", "amount"},
          v \in {0, BadField} : OutboxAddRaw(1, f, v)
    \/ RelayRead
    \/ \E outcome \in {"ok", "publish", "ack"} : RelayProcessOne(outcome)
    \/ RelayRestart

SpecPoison == Init /\ [][NextPoison]_vars

\* Reservations, hand-written log payloads, and the relay and the consumer
\* without faults.
NextPoisonLog ==
    \/ \E u \in Users, q \in Quantities, persist \in {"ok", "abort"} :
          Buy(u, 1, q, persist)
    \/ \E f \in {"request_id", "product_id", "user_id", "quantity", "amount"},
          v \in {0, BadField} : LogPublishRaw(1, f, v)
    \/ RelayRead
    \/ RelayProcessOne("ok")
    \/ ConsumerStep("none", TRUE)

SpecPoisonLog == Init /\ [][NextPoisonLog]_vars

\* The pipeline without faults, every message processed by two consumer
\* tasks at the same time.
NextPair ==
    \/ \E u \in Users, t \in Tokens, q \in Quantities,
          persist \in {"ok", "abort"} : Buy(u, t, q, persist)
    \/ RelayRead
    \/ RelayProcessOne("ok")
    \/ ConsumerPairStep

SpecPair == Init /\ [][NextPair]_vars

\* The pipeline without infrastructure faults until the worker context is
\* cancelled. The worker loops keep running and every call returns.
NextCancel ==
    \/ \E u \in Users, q \in Quantities, persist \in {"ok", "abort"} :
          Buy(u, 1, q, persist)
    \/ Cancel
    \/ RelayIterate
    \/ \E published \in BOOLEAN : RelayCancelledBatch(published)
    \/ RelayReturn
    \/ ConsumerFetch
    \/ ConsumerFinish
    \/ ConsumerReturn

SpecCancel ==
    /\ Init
    /\ [][NextCancel]_vars
    /\ WF_vars(\E published \in BOOLEAN : RelayCancelledBatch(published))
    /\ WF_vars(RelayReturn)
    /\ WF_vars(ConsumerFinish)
    /\ WF_vars(ConsumerReturn)

\* Requests under any choice of distinct id texts (requests are
\* interchangeable, so the texts are taken in ascending order), the relay
\* with ack failures (a message can be published twice) and the consumer.
InitOrderNo ==
    /\ initStock \in 1..MaxStock
    /\ stock = initStock
    /\ InitIdle
    /\ reqText \in {[r \in Rids |-> UUIDOf(g[r])] :
                       g \in {h \in [Rids -> 1..Cardinality(UUIDForm)] :
                                 \A r1, r2 \in Rids : r1 < r2 => h[r1] < h[r2]}}

NextOrderNo ==
    \/ \E u \in Users, q \in Quantities : Buy(u, 1, q, "ok")
    \/ RelayRead
    \/ \E outcome \in {"ok", "ack"} : RelayProcessOne(outcome)
    \/ ConsumerStep("none", TRUE)

SpecOrderNo == InitOrderNo /\ [][NextOrderNo]_vars

\* The pipeline without faults over every stock the key can hold before the
\* sale, the key that was never written included: GET answers nil for it,
\* which the script reads as 0, as INCRBY and DECRBY do.
InitAnyStock ==
    /\ initStock \in 0..MaxStock
    /\ stock = initStock
    /\ reqText = [r \in Rids |-> UUIDOf(r)]
    /\ InitIdle

NextStock ==
    \/ \E u \in Users, t \in Tokens, q \in Quantities,
          persist \in {"ok", "fail", "abort"} : Buy(u, t, q, persist)
    \/ RelayRead
    \/ RelayProcessOne("ok")
    \/ ConsumerStep("none", TRUE)

SpecStock == InitAnyStock /\ [][NextStock]_vars

\* ------------------------------------------------------------------ claims
\* Nothing is left to relay or to consume, and the offset covers the log.
Drained ==
    /\ stream = <<>>
    /\ pel = <<>>
    /\ batch = <<>>
    /\ pos = Len(klog) + 1
    /\ committed = Len(klog)

\* The number of log messages of request r fetched since the last restart.
Fetched(r) ==
    Cardinality({i \in 1..(pos - 1) : klog[i].request_id = r})

\* C1: no oversell -- the quantities of the orders of the product never sum
\* to more than its initial stock.
C1_NoOversell == SumQty(orders) <= initStock

C1_Witness ==
    /\ SumQty(orders) = initStock
    /\ compLock # {}
    /\ \E r \in Rids : call[r].res = "OUT_OF_STOCK"

\* C2: one per user -- never two orders, and never two successful order
\* requests, of the same (user, product).
C2_OnePerUser ==
    /\ \A i, j \in 1..Len(orders) :
          i # j => ~(/\ orders[i].user_id = orders[j].user_id
                     /\ orders[i].product_id = orders[j].product_id)
    /\ \A r1, r2 \in Rids :
          (/\ r1 # r2
           /\ orderReq[r1].status = OrderRequestSuccess
           /\ orderReq[r2].status = OrderRequestSuccess)
          => orderReq[r1].user_id # orderReq[r2].user_id

\* C3: convergence -- once the backlog has drained, every request whose
\* reservation returned OK has an order request that is success or failed.
C3_Converges ==
    Drained => \A r \in Rids :
        call[r].res = "OK" =>
            orderReq[r] # NoRow /\ IsFinal(orderReq[r].status)

\* C4: compensate once -- the first run of the compensation script for a
\* request id gives its quantity back to the stock, every later run nothing.
C4_CompensateOnce ==
    \A r \in Rids :
        restored[r] = IF compCalls[r] = 0 THEN 0 ELSE call[r].qty

C4_Witness == \E r \in Rids : compCalls[r] >= 2 /\ restored[r] = call[r].qty

\* C5: a request whose reservation returned OK and that ended failed has had
\* its quantity given back to the stock exactly once.
C5_FailedIsCompensated ==
    Drained => \A r \in Rids :
        (call[r].res = "OK" /\ orderReq[r].status = OrderRequestFailed)
            => restored[r] = call[r].qty

\* C6: the status of an order request only moves absent -> pending/failed
\* and pending -> success/failed; success and failed never change.
C6_Step ==
    \A r \in Rids :
        LET a == orderReq[r].status
            b == orderReq'[r].status
        IN  \/ a = b
            \/ a = NoRow.status
                 /\ b \in {OrderRequestPending, OrderRequestFailed}
            \/ a = OrderRequestPending
                 /\ b \in {OrderRequestSuccess, OrderRequestFailed}

C6_StatusMonotonic == [][C6_Step]_vars

C6_Witness ==
    /\ \E r \in Rids :
          orderReq[r].status = OrderRequestSuccess /\ Fetched(r) >= 2
    /\ \E r \in Rids : orderReq[r].status = OrderRequestFailed

\* C7: the KV request state never goes from success or failed back to
\* pending.
C7_KVNoRegress ==
    [][\A r \in Rids :
          reqState[r] \in {RequestSuccess, RequestFailed}
              => reqState'[r] # RequestPending]_vars

\* C8: the release script deletes the user lock exactly when its value is
\* the given request id; with any other id no lock changes.
C8_Step ==
    \A u \in Users, rid \in Rids :
        ReleaseUserLock(u, rid) =>
            /\ userLock[u] = rid => userLock'[u] = 0
            /\ userLock[u] # rid => userLock'[u] = userLock[u]
            /\ \A v \in Users \ {u} : userLock'[v] = userLock[v]

C8_ReleaseIfMatch == [][C8_Step]_vars

C8_Witness ==
    /\ lastRelease.rid # 0
    /\ lastRelease.before \notin {0, lastRelease.rid}
    /\ userLock[lastRelease.user] = lastRelease.before
    /\ \E u \in Users : userLock[u] = 0 /\ idem[<<u, 1>>] # 0

\* C9: a retry with the (user, token) of a call that returned OK returns
\* IDEMPOTENT with that call's request id, and changes neither the stock nor
\* the outbox (nor any other key).
C9_Inv ==
    \A r1, r2 \in Rids :
        (/\ r1 < r2
         /\ call[r1].res = "OK"
         /\ call[r2].res # "none"
         /\ call[r2].user = call[r1].user
         /\ call[r2].token = call[r1].token)
        => call[r2].res = "IDEMPOTENT" /\ call[r2].ref = r1

C9_Step ==
    \A r \in Rids :
        (call[r].res = "none" /\ call'[r].res = "IDEMPOTENT")
            => /\ stock' = stock
               /\ stream' = stream
               /\ userLock' = userLock
               /\ idem' = idem
               /\ reqState' = reqState

C9_IdempotentRetry == []C9_Inv /\ [][C9_Step]_vars

C9_Witness ==
    \E r \in Rids :
        /\ call[r].res = "IDEMPOTENT"
        /\ orderReq[call[r].ref].status = OrderRequestSuccess

\* C10: at most one order row per request id.
C10_OneOrderPerRequest ==
    \A i, j \in 1..Len(orders) :
        i # j => orders[i].request_id # orders[j].request_id

C10_Witness ==
    \E r \in Rids :
        /\ HasOrderOfRequest(orders, r)
        /\ Fetched(r) >= 2
        /\ Cardinality({i \in 1..Len(klog) : klog[i].request_id = r}) >= 2

\* The state the consumer works on, and its DB part.
CurSt ==
    [req |-> orderReq, ord |-> orders, stock |-> stock, locks |-> compLock,
     restored |-> restored, calls |-> compCalls]

DbOf(st) == << st.req, st.ord >>

\* message m processed n times in a row, no call failing
RECURSIVE Replay(_, _, _)
Replay(st, m, n) ==
    IF n = 0 THEN st ELSE Replay(processMessage(st, m, "none").st, m, n - 1)

\* C11: replay idempotence -- in every state in which a log message can be
\* delivered, processing it n >= 1 times leaves the orders and order_requests
\* rows that processing it once leaves; so does a run that fails at some
\* call followed by a run that does not.
C11_ReplayIdempotent ==
    \A i \in 1..Len(klog) :
        LET m == klog[i]
            once == DbOf(Replay(CurSt, m, 1))
        IN  /\ \A n \in 1..MaxReplay : DbOf(Replay(CurSt, m, n)) = once
            /\ \A f \in ConsumerFaults :
                  DbOf(Replay(processMessage(CurSt, m, f).st, m, 1)) = once

C11_Witness ==
    /\ pos <= Len(klog)
    /\ \E i \in 1..(pos - 1) : klog[i] = klog[pos]
    /\ orderReq[klog[pos].request_id].status = OrderRequestFailed
    /\ \E r \in Rids : orderReq[r].status = OrderRequestPending

\* C12: the consumer commits a message's offset only after processMessage
\* returned success for it: a consumer step in which a call failed leaves
\* the committed offset alone, and the committed offset only ever moves in a
\* consumer step, to the message just processed, for which processMessage
\* returned no error and whose order request is then success or failed.
C12_Step ==
    /\ (pos' = pos + 1 /\ faults' # faults) => committed' = committed
    /\ committed' # committed =>
          /\ pos' = pos + 1
          /\ committed' = pos
          /\ ~processMessage(CurSt, klog[pos], "none").err
          /\ DbOf(processMessage(CurSt, klog[pos], "none").st)
                = << orderReq', orders' >>
          /\ IsFinal(orderReq'[klog[pos].request_id].status)

C12_CommitAfterSuccess == [][C12_Step]_vars

\* a message whose processing failed was passed without a commit
C12_Witness ==
    /\ faults > 0
    /\ pos > committed + 1
    /\ orderReq[klog[committed + 1].request_id].status = OrderRequestPending

\* The outbox entry of request r is pending at the relay / is in the log.
InPel(r) == \E i \in 1..Len(pel) : pel[i].request_id = r

InLog(r) == \E i \in 1..Len(klog) : klog[i].request_id = r

Published(r) == Cardinality({i \in 1..Len(klog) : klog[i].request_id = r})

\* C13: the relay acks and deletes a stream entry only when its publish to
\* the log has succeeded; when the publish fails the entry stays in the
\* pending list, and it is published again later.
C13_Step ==
    /\ \A r \in Rids :
          (InPel(r) /\ ~(InPel(r))') =>
              /\ Len(klog') = Len(klog) + 1
              /\ klog'[Len(klog')].request_id = r
    /\ RelayProcessOne("publish") => (pel' = pel /\ klog' = klog)

C13_AckAfterPublish ==
    /\ [][C13_Step]_vars
    /\ \A r \in Rids : InPel(r) ~> (InLog(r) /\ ~InPel(r))

\* a publish failed, the entry stayed pending and was then published
C13_Witness ==
    /\ faults > 0
    /\ \E r \in Rids : InLog(r) /\ ~InPel(r) /\ Published(r) = 1
    /\ pel = <<>>
    /\ stream = <<>>

\* The outbox stream holds an entry of request r, delivered or not.
InOutbox(r) ==
    \/ InPel(r)
    \/ \E i \in 1..Len(stream) : stream[i].request_id = r

\* C14: no lost events -- every event appended to the outbox stream is
\* eventually in the log at least once, as long as the relay keeps running
\* (restarts included) and the log is unreachable only finitely often.
C14_NoLostEvents ==
    \A r \in Rids : InOutbox(r) ~> InLog(r)

\* after an outage every event is in the log, one of them twice
C14_Witness ==
    /\ faults > 0
    /\ Cardinality({r \in Rids : call[r].res = "OK"}) >= 2
    /\ \A r \in Rids : call[r].res = "OK" => InLog(r) /\ ~InOutbox(r)
    /\ \E r \in Rids : Published(r) >= 2

\* The requests whose reservation returned OK.
Reserved == {r \in Rids : call[r].res = "OK"}

OrdersOf(r) == {i \in 1..Len(orders) : orders[i].request_id = r}

\* C15: happy path -- without faults a reservation that returned OK never
\* ends failed, its stock stays decremented, it never has more than one
\* order, and once the pipeline has drained it is success with exactly one
\* order of its request id.
C15_HappyPath ==
    /\ stock = initStock - Cardinality(Reserved)
    /\ \A r \in Reserved :
          /\ orderReq[r].status # OrderRequestFailed
          /\ Cardinality(OrdersOf(r)) <= 1
          /\ Drained =>
                /\ orderReq[r].status = OrderRequestSuccess
                /\ Cardinality(OrdersOf(r)) = 1

CallsWith(res) == {r \in Rids : call[r].res = res}

\* The buy calls so far came from pairwise distinct users.
DistinctUsers ==
    \A r1, r2 \in Used : r1 # r2 => call[r1].user # call[r2].user

SameUserTwoTokens(r1, r2) ==
    /\ r1 \in Used
    /\ r2 \in Used
    /\ r1 < r2
    /\ call[r1].user = call[r2].user
    /\ call[r1].token # call[r2].token

\* C17: of two buy calls of the same user with distinct idempotency tokens
\* at most one returns OK; the call after an OK is rejected as DUPLICATE,
\* whether or not the first call's order exists yet, and a call rejected as
\* DUPLICATE changes neither the stock nor any other key.
C17_Inv ==
    \A r1, r2 \in Rids :
        SameUserTwoTokens(r1, r2) =>
            /\ ~(call[r1].res = "OK" /\ call[r2].res = "OK")
            /\ call[r1].res = "OK" => call[r2].res = "DUPLICATE"

C17_Step ==
    \A r \in Rids :
        (call[r].res = "none" /\ call'[r].res = "DUPLICATE") =>
            /\ stock' = stock
            /\ UNCHANGED << kvVars, stream >>

ReachesCreate(st, m) ==
    /\ Validate(m)
    /\ st.req[m.request_id] # NoRow
    /\ ~IsFinal(st.req[m.request_id].status)

\* ... and there the INSERT meets an order with the message's request id.
HitsRequestIdConflict(st, m) ==
    /\ ReachesCreate(st, m)
    /\ HasOrderOfRequest(st.ord, m.request_id)

\* The message at the reader's position is delivered although the order of
\* its request was inserted before: the offset commit did not happen.
Redelivery ==
    /\ pos <= Len(klog)
    /\ HasOrderOfRequest(orders, klog[pos].request_id)

\* The order request of r is success with the number of r's order.
SuccessWithOrder(reqs, ords, r) ==
    /\ reqs[r].status = OrderRequestSuccess
    /\ HasOrderOfRequest(ords, r)
    /\ reqs[r].order_no = OrderOfRequest(ords, r).order_no

\* Exactly one order row carries request id r.
OneOrderOf(ords, r) ==
    Cardinality({i \in 1..Len(ords) : ords[i].request_id = r}) = 1

C18_Step ==
    (Redelivery /\ ConsumerStep("none", TRUE)) =>
        /\ SuccessWithOrder(orderReq, orders, klog[pos].request_id)
        /\ ~ReachesCreate(CurSt, klog[pos])
        /\ UNCHANGED dbVars
        /\ committed' = pos
        /\ OneOrderOf(orders', klog[pos].request_id)

C19_Step ==
    LET rid == klog[pos].request_id
    IN  (/\ ConsumerStep("none", TRUE)
         /\ call[rid].res = "UNRESERVED"
         /\ orderReq[rid] = NoRow)
        => /\ orderReq'[rid].status = OrderRequestFailed
           /\ orderReq'[rid].error_msg = "request_state_missing"
           /\ rid \in compLock'
           /\ stock' = stock

C19_UnreservedLeavesStock == [][C19_Step]_vars

\* C20: a result lookup for a request id with neither a KV state nor a DB
\* row answers not found; pending is only ever answered for a request id
\* that a reservation issued.
C20_Step ==
    \A i \in Readers, r \in Rids :
        (/\ ResultLookup(i, r)
         /\ ~GetRequestState(reqState, r).found
         /\ orderReq[r] = NoRow)
        => reads'[i].status = "not_found"

C20_Inv ==
    \A i \in Readers :
        (reads[i].pc = "answered" /\ reads[i].status = RequestPending)
            => call[reads[i].rid].res = "OK"

Processed(i) == IsFinal(orderReq[klog[i].request_id].status)

\* C21: a message whose processing returned an error is never skipped -- no
\* offset is committed, for it or for a later message, while it has not
\* been processed successfully.
C21_NeverSkipped ==
    \A i \in 1..committed : Processed(i)

\* The outbox event of request r is in the stream, in flight or in the log.
EventOf(r) == InOutbox(r) \/ InLog(r)

\* The five effects of the reservation script for request r.
LockSet(r) == call[r].user \in Users /\ userLock[call[r].user] = r

IdemSet(r) ==
    /\ call[r].user \in Users
    /\ call[r].token \in Tokens
    /\ idem[<<call[r].user, call[r].token>>] = r

StateSet(r) == reqState[r] = RequestPending

RECURSIVE SumOver(_, _)
SumOver(f, S) ==
    IF S = {} THEN 0
    ELSE LET x == CHOOSE y \in S : TRUE IN f[x] + SumOver(f, S \ {x})

\* C22: the reservation is all-or-nothing. For each request id all of user
\* lock, idempotency entry, pending state and outbox event are there with a
\* unit of stock taken (the call returned OK), or none of them is; a buy
\* step changes all of them or none; and the stock is the initial stock
\* less the quantities of the requests with an event, plus what was given
\* back.
C22_Inv ==
    /\ \A r \in Rids :
          IF call[r].res = "OK"
          THEN LockSet(r) /\ IdemSet(r) /\ StateSet(r) /\ EventOf(r)
          ELSE ~LockSet(r) /\ ~IdemSet(r) /\ ~StateSet(r) /\ ~EventOf(r)
    /\ stock = initStock
                 - SumOver([r \in Rids |-> call[r].qty],
                           {r \in Rids : EventOf(r)})
                 + SumOver(restored, Rids)

C22_Step ==
    \A r \in Rids :
        (call[r].res = "none" /\ call'[r].res # "none") =>
            \/ /\ call'[r].res = "OK"
               /\ stock' = stock - call'[r].qty
               /\ userLock' = [userLock EXCEPT ![call'[r].user] = r]
               /\ idem' = [idem EXCEPT ![<<call'[r].user, call'[r].token>>] = r]
               /\ reqState' = [reqState EXCEPT ![r] = RequestPending]
               /\ stream' = Append(stream, Event(r, call'[r].user, call'[r].qty))
            \/ /\ call'[r].res # "OK"
               /\ UNCHANGED << stock, userLock, idem, reqState, stream >>

C24_Step ==
    (/\ pos <= Len(klog)
     /\ orderReq[klog[pos].request_id] = NoRow
     /\ ConsumerStep("none", TRUE))
    => /\ orderReq' = [orderReq EXCEPT ![klog[pos].request_id] =
                          [status |-> OrderRequestFailed, order_no |-> <<>>,
                           error_msg |-> "request_state_missing",
                           user_id |-> klog[pos].user_id,
                           quantity |-> klog[pos].quantity]]
       /\ orders' = orders
       /\ compCalls' = [compCalls EXCEPT ![klog[pos].request_id] = @ + 1]
       /\ klog[pos].request_id \in compLock'
       /\ committed' = pos

C24_InsertKeepsRow ==
    \A i \in 1..Len(klog) :
        orderReq[klog[i].request_id] # NoRow =>
            createMissingFailedRequest(CurSt, klog[i],
                                       "request_state_missing") = CurSt

C24_MissingRowFails == []C24_InsertKeepsRow /\ [][C24_Step]_vars

C24_Witness ==
    /\ \E i \in 1..committed :
          /\ orderReq[klog[i].request_id].error_msg = "request_state_missing"
          /\ klog[i].request_id \in compLock
    /\ \E i \in 1..Len(klog) :
          orderReq[klog[i].request_id].status = OrderRequestPending

\* An order of a different request holds the (user, product) of message m.
OtherOrderOfUser(rows, m) ==
    \E i \in 1..Len(rows) :
        /\ rows[i].user_id = m.user_id
        /\ rows[i].product_id = m.product_id
        /\ rows[i].request_id # m.request_id

\* C25: when the consumer, without a fault, consumes the message of a
\* pending request while an order of a different request has the same
\* (user, product), the request ends failed(duplicate_purchase), its stock
\* is given back once, no order is created for it and the offset is
\* committed.
C25_Step ==
    (/\ pos <= Len(klog)
     /\ pos' = pos + 1
     /\ faults' = faults
     /\ orderReq[klog[pos].request_id].status = OrderRequestPending
     /\ OtherOrderOfUser(orders, klog[pos]))
    => /\ orderReq'[klog[pos].request_id].status = OrderRequestFailed
       /\ orderReq'[klog[pos].request_id].error_msg = "duplicate_purchase"
       /\ orders' = orders
       /\ restored'[klog[pos].request_id] = klog[pos].quantity
       /\ compCalls'[klog[pos].request_id] = 1
       /\ committed' = pos

C25_DuplicatePurchaseFails == [][C25_Step]_vars

\* C26: a consumer step that brings a request to success or failed in the
\* database leaves the same terminal status in the request's KV state.
C26_Step ==
    \A r \in Rids :
        (/\ pos' = pos + 1
         /\ ~IsFinal(orderReq[r].status)
         /\ IsFinal(orderReq'[r].status))
        => reqState'[r] = MapStatus(orderReq'[r].status)

C26_TerminalStateInKV == [][C26_Step]_vars

\* C27: a consumer step that marks a request failed and gives its stock
\* back leaves the user's purchase lock no longer held by that request.
C27_Step ==
    \A r \in Rids :
        (/\ pos' = pos + 1
         /\ orderReq[r].status # OrderRequestFailed
         /\ orderReq'[r].status = OrderRequestFailed
         /\ restored'[r] > restored[r])
        => userLock'[orderReq'[r].user_id] # r

C27_FailedReleasesLock == [][C27_Step]_vars

Range(s) == {s[i] : i \in 1..Len(s)}

IsRaw(e) == call[e.request_id].res = "RAW"

\* C28: the relay acknowledges and deletes a hand-written entry that does
\* not parse without publishing it and goes on with the rest of the batch;
\* any other entry leaves the outbox only with its message in the log.
C28_Step ==
    /\ (/\ batch # <<>>
        /\ IsRaw(Head(batch))
        /\ batch' # batch
        /\ faults' = faults)
       => /\ klog' = klog
          /\ Head(batch) \notin Range(stream') \cup Range(pel')
          /\ batch' = Tail(batch)
    /\ \A e \in Range(stream) \cup Range(pel) :
          (e \notin Range(stream') \cup Range(pel') /\ ~IsRaw(e))
          => \E i \in 1..Len(klog') : klog'[i] = e

C28_Inv == \A i \in 1..Len(klog) : ~IsRaw(klog[i])

C28_PoisonDropped == []C28_Inv /\ [][C28_Step]_vars

C28_Witness ==
    /\ faults = 0
    /\ \E r1, r2 \in Rids :
          /\ r1 < r2
          /\ call[r1].res = "RAW"
          /\ ~InOutbox(r1)
          /\ call[r2].res = "OK"
          /\ InLog(r2)
          /\ ~InOutbox(r2)

\* The payload does not decode, or has an empty request id, product 0, or a
\* user, quantity or amount that is not positive.
PoisonPayload(m) ==
    \/ \E f \in {"request_id", "product_id", "user_id", "quantity", "amount"} :
          m[f] = BadField
    \/ m.request_id = 0
    \/ m.product_id = 0
    \/ m.user_id <= 0
    \/ m.quantity <= 0
    \/ m.amount <= 0

\* C29: the consumer's step on a log message that does not decode or does
\* not validate commits the offset and changes no order, no order request
\* row, no stock and no compensation marker.
C29_Step ==
    (/\ pos <= Len(klog)
     /\ pos' = pos + 1
     /\ PoisonPayload(klog[pos]))
    => /\ UNCHANGED << orderReq, orders, stock, compLock, restored,
                       compCalls >>
       /\ committed' = pos

C29_PoisonSkipped == [][C29_Step]_vars

C29_Witness ==
    \E i, j \in 1..committed :
        /\ i < j
        /\ PoisonPayload(klog[i])
        /\ ~PoisonPayload(klog[j])
        /\ HasOrderOfRequest(orders, klog[j].request_id)

\* C30: the reservation checks the idempotency map first, the user lock
\* second and the stock last: a known (user, token) is answered IDEMPOTENT
\* with its request id whatever the lock and the stock are, a fresh token of
\* a user whose lock exists is answered DUPLICATE whatever the stock is, and
\* OUT_OF_STOCK is answered exactly when neither applies and the stock is
\* below the quantity.
C30_Step ==
    \A r \in Rids :
        (/\ call[r].res = "none"
         /\ call'[r].res \in {"OK", "IDEMPOTENT", "DUPLICATE", "OUT_OF_STOCK"})
        => LET u == call'[r].user
               t == call'[r].token
               q == call'[r].qty
           IN  /\ idem[<<u, t>>] # 0 =>
                     /\ call'[r].res = "IDEMPOTENT"
                     /\ call'[r].ref = idem[<<u, t>>]
               /\ (idem[<<u, t>>] = 0 /\ userLock[u] # 0) =>
                     call'[r].res = "DUPLICATE"
               /\ call'[r].res = "OUT_OF_STOCK" <=>
                     (idem[<<u, t>>] = 0 /\ userLock[u] = 0 /\ stock < q)

C30_CheckOrder == [][C30_Step]_vars

C30_Witness ==
    /\ initStock = 1
    /\ stock = 0
    /\ \A r \in Rids : restored[r] = 0
    /\ call[1].res = "OK"
    /\ userLock[call[1].user] = 1
    /\ \E r2, r3 \in Rids :
          /\ call[r2].res = "IDEMPOTENT"
          /\ call[r2].ref = 1
          /\ call[r3].res = "DUPLICATE"
          /\ call[r3].user = call[1].user

\* C31: a reservation answered DUPLICATE or OUT_OF_STOCK changes neither the
\* stock, nor any user lock, nor the idempotency map, nor any reservation
\* state, nor the outbox stream.
C31_Step ==
    \A r \in Rids :
        (/\ call[r].res = "none"
         /\ call'[r].res \in {"DUPLICATE", "OUT_OF_STOCK"})
        => UNCHANGED << stock, userLock, idem, reqState, stream, pel >>

C31_RejectionChangesNothing == [][C31_Step]_vars

C31_Witness ==
    \E r1, r2, r3 \in Rids :
        /\ r1 < r2
        /\ call[r1].res = "OK"
        /\ userLock[call[r1].user] = r1
        /\ call[r2].res = "DUPLICATE"
        /\ call[r2].user = call[r1].user
        /\ idem[<<call[r2].user, call[r2].token>>] = 0
        /\ call[r3].res = "OUT_OF_STOCK"
        /\ userLock[call[r3].user] = 0

\* C32: two consumer tasks that process the message of one request at the
\* same time leave what one task after the other leaves: the same rows,
\* orders, stock and compensation markers, at most one order of the request
\* (exactly one when the request was pending), one terminal status, and the
\* request's quantity restored at most once.
C32_Step ==
    (pos <= Len(klog) /\ pos' = pos + 1)
    => LET m == klog[pos]
           rid == m.request_id
           seq == Replay(CurSt, m, 2)
       IN  /\ orderReq' = seq.req
           /\ orders' = seq.ord
           /\ stock' = seq.stock
           /\ compLock' = seq.locks
           /\ restored' = seq.restored
           /\ IsFinal(orderReq'[rid].status)
           /\ orderReq[rid].status = OrderRequestPending
                 => /\ OneOrderOf(orders', rid)
                    /\ orderReq'[rid].status = OrderRequestSuccess
           /\ orderReq[rid] = NoRow
                 => /\ ~HasOrderOfRequest(orders', rid)
                    /\ orderReq'[rid].status = OrderRequestFailed
                    /\ restored'[rid] = m.quantity

C32_PairIsSequential == [][C32_Step]_vars

C32_Witness ==
    /\ \E r \in Rids :
          /\ orderReq[r].status = OrderRequestFailed
          /\ compCalls[r] = 2
          /\ restored[r] = call[r].qty
    /\ \E r \in Rids :
          /\ orderReq[r].status = OrderRequestSuccess
          /\ OneOrderOf(orders, r)

\* C33: a relay read takes the consumer's pending entries when there are
\* any and leaves the stream alone; new entries are read only when the
\* pending list is empty; hence the entry that is published is always the
\* oldest entry not yet acknowledged, older than every entry still waiting.
C33_Step ==
    /\ (batch = <<>> /\ batch' # <<>> /\ pel # <<>>)
          => /\ batch' = SubSeq(pel, 1, Min(ReadCount, Len(pel)))
             /\ stream' = stream
             /\ pel' = pel
    /\ Len(stream') < Len(stream) => pel = <<>>
    /\ Len(klog') > Len(klog)
          => /\ pel # <<>>
             /\ klog'[Len(klog')] = Head(pel)
             /\ \A e \in Range(stream) \cup Range(Tail(pel)) :
                   e.request_id > Head(pel).request_id

C33_Inv == batch # <<>> => batch = SubSeq(pel, Len(pel) - Len(batch) + 1, Len(pel))

C33_PendingFirst == []C33_Inv /\ [][C33_Step]_vars

C33_Witness ==
    \E r1, r2 \in Rids :
        /\ r1 < r2
        /\ faults > 0
        /\ Published(r1) = 2
        /\ ~InOutbox(r1)
        /\ ~InLog(r2)
        /\ \E i \in 1..Len(stream) : stream[i].request_id = r2

\* C34: per request the persistent events come in the order reservation
\* state, outbox entry, log message, order and success mark: an order or a
\* success status exists only for a request with a message in the log, a
\* message is appended to the log only for an entry of the outbox, and the
\* outbox entry is appended in the step that writes the reservation state.
C34_Inv ==
    \A r \in Rids :
        /\ (HasOrderOfRequest(orders, r)
            \/ orderReq[r].status = OrderRequestSuccess) => InLog(r)
        /\ InLog(r) => call[r].res = "OK"
        /\ (InOutbox(r) \/ InLog(r)) => call[r].res = "OK"

C34_Step ==
    \A r \in Rids :
        /\ (~InLog(r) /\ InLog(r)') => InPel(r)
        /\ (~InOutbox(r) /\ InOutbox(r)')
              => /\ ~InLog(r)
                 /\ reqState[r] = ""
                 /\ reqState'[r] = RequestPending
        /\ (~HasOrderOfRequest(orders, r) /\ HasOrderOfRequest(orders', r))
              => /\ InLog(r)
                 /\ orderReq'[r].status = OrderRequestSuccess

C34_EventOrder == []C34_Inv /\ [][C34_Step]_vars

C34_Witness ==
    \E r \in Rids :
        /\ reqState[r] = RequestPending
        /\ ~InOutbox(r)
        /\ InLog(r)
        /\ OneOrderOf(orders, r)
        /\ orderReq[r].status = OrderRequestSuccess

\* C35: once the worker context is cancelled the relay's Run returns, at an
\* iteration boundary, and the consumer's Run returns, after the message in
\* hand was processed; neither takes up new work, and no offset is
\* committed after the cancellation.
C35_Step ==
    /\ run.cancelled => committed' = committed
    /\ (run.cancelled /\ batch = <<>>) => batch' = <<>>
    /\ (run.cancelled /\ ~run.inflight) => ~run'.inflight /\ pos' = pos
    /\ (run.relay = "running" /\ run'.relay = "returned") => batch = <<>>
    /\ (run.consumer = "running" /\ run'.consumer = "returned")
          => ~run.inflight

C36_Inv ==
    /\ \A i \in 1..Len(orders) :
          /\ orders[i].order_no = buildOrderNo(reqText[orders[i].request_id])
          /\ orderReq[orders[i].request_id].order_no = orders[i].order_no
          /\ Len(orders[i].order_no) = 5
          /\ \A k \in 1..5 : orders[i].order_no[k] # "-"
    /\ \A i, j \in 1..Len(orders) :
          orders[i].request_id # orders[j].request_id
             => orders[i].order_no # orders[j].order_no

C36_Step ==
    \A i \in 1..Len(orders) : orders'[i].order_no = orders[i].order_no

C36_OrderNoOfRequest == []C36_Inv /\ [][C36_Step]_vars

C36_Witness ==
    /\ Len(orders) >= 2
    /\ \E i \in 1..Len(orders) :
          /\ Published(orders[i].request_id) = 2
          /\ committed = Len(klog)
    /\ \E i, j \in 1..Len(orders) :
          /\ i # j
          /\ SubSeq(orders[i].order_no, 1, 4) = SubSeq(orders[j].order_no, 1, 4)

\* C37: the stock counter is never negative: it only goes down in a
\* reservation that found at least the quantity, by that quantity; and with
\* no stock at the start (the key missing) every call is rejected as out of
\* stock.
C37_Inv ==
    /\ stock >= 0
    /\ initStock = 0 =>
          /\ stock = 0
          /\ \A r \in Rids : call[r].res \in {"none", "OUT_OF_STOCK"}

C37_Step ==
    stock' < stock
       => \E r \in Rids :
             /\ call[r].res = "none"
             /\ call'[r].res = "OK"
             /\ stock >= call'[r].qty
             /\ stock' = stock - call'[r].qty

C37_StockNeverNegative == []C37_Inv /\ [][C37_Step]_vars

C37_Witness ==
    /\ initStock = MaxStock
    /\ stock = 0
    /\ \A r \in Rids : restored[r] = 0
    /\ Cardinality({r \in Rids : call[r].res = "OK"}) = MaxStock
    /\ \E r \in Rids : call[r].res = "OUT_OF_STOCK"

\* C38: stock conservation -- the stock plus the quantities of the requests
\* that reserved and were not compensated is the initial stock; the stock
\* never exceeds the initial stock.
C38_StockConserved ==
    /\ stock + SumOver([r \in Rids |-> call[r].qty],
                       {r \in Reserved : r \notin compLock}) = initStock
    /\ stock <= initStock

\* C39: an order with request id r exists exactly when the order request of
\* r is success, and then the row's order_no is that order's number; a
\* pending or failed request has no order.
C39_OrderIffSuccess ==
    \A r \in Rids :
        /\ HasOrderOfRequest(orders, r)
              <=> orderReq[r].status = OrderRequestSuccess
        /\ HasOrderOfRequest(orders, r)
              => /\ OneOrderOf(orders, r)
                 /\ orderReq[r].order_no = OrderOfRequest(orders, r).order_no

C39_Witness ==
    /\ \E r \in Rids :
          /\ orderReq[r].status = OrderRequestSuccess
          /\ OneOrderOf(orders, r)
          /\ Fetched(r) >= 2
    /\ \E r \in Rids : orderReq[r].status = OrderRequestFailed
    /\ \E r \in Rids : orderReq[r].status = OrderRequestPending /\ InLog(r)

====
